---- MODULE Spec2Model ----
(***************************************************************************)
(* A model of benet, the safe wrapper around the ENet transport library:   *)
(* the reference-counted global initialisation guard (src/src/init.rs),    *)
(* packets and their buffers (src/src/packet.rs), peer views and attached  *)
(* data (src/src/peer.rs) and the host with its compressor bridge          *)
(* (src/src/host.rs).                                                      *)
(***************************************************************************)
EXTENDS Integers, Sequences, FiniteSets, TLC

(***************************************************************************)
(* Bounds of the model.                                                    *)
(***************************************************************************)
NThreads == 3
MaxGuards == 3
MaxPeers == 2
MaxPackets == 2
MaxLen == 2
MaxByte == 1
MaxSlack == 1
MaxCallbacks == 2
MaxCfg == 1
MaxFlagVars == 2
MaxOut == 3
MaxWrites == 3
MaxMillis == 2

Threads == 1..NThreads
NoThread == 0

VARIABLES
    refCount,   \* init.rs:5   REF_COUNT, the value behind the mutex
    engine,     \* TRUE while the native engine is initialized
    lock,       \* init.rs:5   the thread holding REF_COUNT's mutex, or NoThread
    pc,         \* where each thread stands inside an InitGuard operation
    guards,     \* the number of live InitGuard values
    lastCall,   \* the last native initialize/deinitialize call that returned
    host,       \* host.rs:25   "none", or "alive" while a Host value exists
    built,      \* host.rs:308  the configuration build was last called with, and
                \* host.rs:346  the arguments the native host was created with
    compressor, \* host.rs:378  what the bridge context holds: "none" or "custom"
    panic,      \* host.rs:379  CompressorCtx::panic: 0 (None) or the payload kept
    peer,       \* the native peer array: each slot's protocol state and data pointer
    view,       \* the Peer/PeerMut view the caller holds, if any
    pkt,        \* every packet: wrapper, native allocation and buffer
    nullReclaim,\* a reclamation ran on a slot whose data pointer was null
    lastData,   \* what the last Packet::data() call returned
    dropLog,    \* host.rs:221  what the destructor of the last Host did, in order
    last,       \* the last host-level call and how it returned
    flags,      \* packet.rs:101  the Flags values the caller holds, and the last
                \* call of a Flags method
    out,        \* compress.rs:62  the OutputBuffer a compressor callback is given
    cb,         \* host.rs:416  how the last native compressor entry point returned
    timeouts    \* peer.rs:237  the last set_timeout call: arguments and what the
                \* engine was given

initVars == <<refCount, engine, lock, pc, guards, lastCall>>
hostVars == <<host, built, dropLog, compressor, panic, peer, view, nullReclaim, last>>
pktVars == <<pkt, lastData>>
valVars == <<flags, out, cb, timeouts>>
vars == <<initVars, hostVars, pktVars, valVars>>

(***************************************************************************)
(* InitGuard (src/src/init.rs)                                             *)
(***************************************************************************)

\* init.rs:12  `if *ref_count != 0`: the engine is up, only count the guard.
NewFastPathNever(c) == FALSE
NewFastPath(c) == c # 0

\* init.rs:20  `if ret < 0 { return Err(Error::Init) }`
InitFailed(ret) == ret < 0

\* init.rs:44  `if *ref_count == 0` after the decrement: deinitialize.
DropDeinitOffByOne(c) == c = 1
DropDeinit(c) == c = 0

\* init.rs:11,33,41  REF_COUNT.lock() blocks until no thread holds the mutex.
CanLockUnguarded == TRUE
CanLock == lock = NoThread

\* The thread has no InitGuard operation in progress.
Idle(t) == pc[t] = "idle"

\* A guard borrowed by a clone in progress cannot be dropped meanwhile.
Pinned == IF \E t \in Threads : pc[t] = "clone_wait" THEN 1 ELSE 0

\* A thread calls InitGuard::new and blocks on the mutex (init.rs:11).
CallNew(t) ==
    /\ UNCHANGED <<hostVars, pktVars, valVars>>
    /\ Idle(t)
    /\ guards < MaxGuards
    /\ pc' = [pc EXCEPT ![t] = "new_wait"]
    /\ UNCHANGED <<refCount, engine, lock, guards, lastCall>>

\* init.rs:11-19: the lock is taken; a nonzero count is incremented and the
\* guard returned, a zero count leads into enet_initialize with the lock held.
NewLocked(t) ==
    /\ UNCHANGED <<hostVars, pktVars, valVars>>
    /\ pc[t] = "new_wait"
    /\ CanLock
    /\ IF NewFastPath(refCount)
       THEN /\ refCount' = refCount + 1
            /\ guards' = guards + 1
            /\ pc' = [pc EXCEPT ![t] = "idle"]
            /\ lock' = NoThread
       ELSE /\ pc' = [pc EXCEPT ![t] = "new_native"]
            /\ lock' = t
            /\ UNCHANGED <<refCount, guards>>
    /\ UNCHANGED <<engine, lastCall>>

\* init.rs:19-27: enet_initialize returns ret; on failure the count stays 0.
NewNativeReturn(t, ret) ==
    /\ UNCHANGED <<hostVars, pktVars, valVars>>
    /\ pc[t] = "new_native"
    /\ IF InitFailed(ret)
       THEN /\ lastCall' = "initialize_failed"
            /\ UNCHANGED <<refCount, engine, guards>>
       ELSE /\ lastCall' = "initialize"
            /\ refCount' = 1
            /\ engine' = TRUE
            /\ guards' = guards + 1
    /\ lock' = NoThread
    /\ pc' = [pc EXCEPT ![t] = "idle"]

\* A thread calls clone on a live guard and blocks on the mutex (init.rs:33).
CallClone(t) ==
    /\ UNCHANGED <<hostVars, pktVars, valVars>>
    /\ Idle(t)
    /\ guards >= 1
    /\ guards < MaxGuards
    /\ pc' = [pc EXCEPT ![t] = "clone_wait"]
    /\ UNCHANGED <<refCount, engine, lock, guards, lastCall>>

\* init.rs:33: `*REF_COUNT.lock().unwrap() += 1`
CloneLocked(t) ==
    /\ UNCHANGED <<hostVars, pktVars, valVars>>
    /\ pc[t] = "clone_wait"
    /\ CanLock
    /\ refCount' = refCount + 1
    /\ guards' = guards + 1
    /\ pc' = [pc EXCEPT ![t] = "idle"]
    /\ UNCHANGED <<engine, lock, lastCall>>

\* A guard goes out of scope: drop begins and blocks on the mutex (init.rs:41).
CallDrop(t) ==
    /\ UNCHANGED <<hostVars, pktVars, valVars>>
    /\ Idle(t)
    /\ guards - Pinned >= 1
    /\ guards' = guards - 1
    /\ pc' = [pc EXCEPT ![t] = "drop_wait"]
    /\ UNCHANGED <<refCount, engine, lock, lastCall>>

\* init.rs:41-46: the count is decremented; at zero enet_deinitialize is
\* entered with the lock held.
DropLocked(t) ==
    /\ UNCHANGED <<hostVars, pktVars, valVars>>
    /\ pc[t] = "drop_wait"
    /\ CanLock
    /\ refCount' = refCount - 1
    /\ IF DropDeinit(refCount - 1)
       THEN /\ pc' = [pc EXCEPT ![t] = "drop_native"]
            /\ lock' = t
       ELSE /\ pc' = [pc EXCEPT ![t] = "idle"]
            /\ lock' = NoThread
    /\ UNCHANGED <<engine, guards, lastCall>>

\* init.rs:45-49: enet_deinitialize returns and the lock is released.
DropNativeReturn(t) ==
    /\ UNCHANGED <<hostVars, pktVars, valVars>>
    /\ pc[t] = "drop_native"
    /\ engine' = FALSE
    /\ lastCall' = "deinitialize"
    /\ lock' = NoThread
    /\ pc' = [pc EXCEPT ![t] = "idle"]
    /\ UNCHANGED <<refCount, guards>>

(***************************************************************************)
(* InitGuard operations as the single-threaded wrapper code runs them.     *)
(***************************************************************************)

\* The guard state: count, engine, live guards and the last native call.
G == [count |-> refCount, up |-> engine, live |-> guards, last |-> lastCall]

\* init.rs:10-28  InitGuard::new; ret is what enet_initialize returns.
InitGuard_new(g, ret) ==
    IF NewFastPath(g.count)
    THEN [ok |-> TRUE, g |-> [g EXCEPT !.count = @ + 1, !.live = @ + 1]]
    ELSE IF InitFailed(ret)
         THEN [ok |-> FALSE, g |-> [g EXCEPT !.last = "initialize_failed"]]
         ELSE [ok |-> TRUE,
               g |-> [g EXCEPT !.count = 1, !.up = TRUE, !.live = @ + 1,
                               !.last = "initialize"]]

\* init.rs:31-37  Clone for InitGuard
InitGuard_clone(g) == [g EXCEPT !.count = @ + 1, !.live = @ + 1]

\* init.rs:39-50  Drop for InitGuard
InitGuard_drop_forgotten(g) == g
InitGuard_drop(g) ==
    IF DropDeinit(g.count - 1)
    THEN [g EXCEPT !.count = @ - 1, !.live = @ - 1, !.up = FALSE,
                   !.last = "deinitialize"]
    ELSE [g EXCEPT !.count = @ - 1, !.live = @ - 1]

\* The guard state after a wrapper operation; no thread is inside InitGuard.
SetG(g) ==
    /\ refCount' = g.count
    /\ engine' = g.up
    /\ guards' = g.live
    /\ lastCall' = g.last
    /\ UNCHANGED <<lock, pc>>

InitRets == {-1, 0}

(***************************************************************************)
(* Packets (src/src/packet.rs)                                             *)
(***************************************************************************)

Packets == 1..MaxPackets
Byte == 0..MaxByte
ByteSeqs(n) == [1..n -> Byte]
Buffers == UNION {ByteSeqs(n) : n \in 0..MaxLen}

NilAddr == <<"nil", 0>>
NoVec == [hdr |-> NilAddr, ptr |-> NilAddr, len |-> 0, cap |-> 0]
NoRec == [data |-> NilAddr, dataLength |-> 0, userData |-> 0,
          freeCallback |-> FALSE]
FreePkt == [st |-> "free", origin |-> "none", releases |-> 0,
            handoff |-> "na", bytes |-> <<>>, vec |-> NoVec, rec |-> NoRec,
            reclaimed |-> <<>>]

\* packet.rs:31  the Vec<u8> argument of Packet::new: the Vec value itself
\* lives in the frame of Packet::new (hdr), its storage on the heap (ptr).
VecOf(p, bytes, slack) ==
    [hdr |-> <<"stack", p>>, ptr |-> <<"heap", p>>, len |-> Len(bytes),
     cap |-> Len(bytes) + slack]

\* packet.rs:35  `&data as *const _ as *const _`: the address of the Vec
\* value, which is what enet_packet_create receives as the data pointer.
DataArg(v) == v.hdr

\* packet.rs:34-47  the native record after enet_packet_create with
\* NO_ALLOCATE (the data pointer is stored as given), userData and
\* freeCallback set by Packet::new.
CapacityTag(v) == v.cap

RecordOfNew(v) ==
    [data |-> DataArg(v), dataLength |-> v.len, userData |-> CapacityTag(v),
     freeCallback |-> TRUE]

\* packet.rs:166-172  free_callback: the descriptor Vec::from_raw_parts gets.
free_callback(rec) ==
    [ptr |-> rec.data, len |-> rec.dataLength, cap |-> rec.userData]

\* enet_packet_destroy: the free callback runs if one is set, then the
\* native allocation is released.
NativeDestroy(k) ==
    [k EXCEPT !.releases = @ + 1,
              !.reclaimed = IF k.rec.freeCallback
                            THEN Append(@, free_callback(k.rec)) ELSE @]

\* packet.rs:81-87  Drop for Packet, followed by the drop of its InitGuard
\* field (packet.rs:9-13).  c is a packet record with the guard state.
Packet_drop(c) == [k |-> NativeDestroy(c.k), g |-> InitGuard_drop(c.g)]

\* packet.rs:24-26  Packet::into_raw takes self by value and returns a copy
\* of the pointer; self goes out of scope at the end of the function, so
\* the destructor runs before the caller uses the pointer.
Packet_into_raw_forget(c) == c
Packet_into_raw(c) == Packet_drop(c)

\* packet.rs:66-73  Packet::data: the bytes at the record's data pointer.
\* A pointer into the finished frame of Packet::new designates memory whose
\* contents are indeterminate.
PacketDataResults(k) ==
    IF k.rec.dataLength = 0 THEN {<<>>}
    ELSE IF k.rec.data[1] = "stack" THEN ByteSeqs(k.rec.dataLength)
    ELSE {k.bytes}

\* Whether the allocation behind a handle is still live.
AllocState(k) == IF k.releases = 0 THEN "live" ELSE "freed"

Owned == {p \in Packets : pkt[p].st = "owned"}
Queued == {p \in Packets : pkt[p].st = "native"}

\* The engine is done with the queued packets of `done`: it destroys them.
Complete(pk, done) ==
    [p \in Packets |->
        IF p \in done THEN [NativeDestroy(pk[p]) EXCEPT !.st = "done"]
        ELSE pk[p]]

\* packet.rs:31-56  Packet::new(data, channel_id, flags)
PacketNew(p, bytes, slack, initRet, created) ==
    /\ pkt[p].st = "free"
    /\ LET r == InitGuard_new(G, initRet)
           v == VecOf(p, bytes, slack)
       IN IF ~r.ok
          THEN /\ SetG(r.g)
               /\ last' = [op |-> "packet_new", how |-> "err_init"]
               /\ UNCHANGED pkt
          ELSE IF ~created
          THEN /\ SetG(InitGuard_drop(r.g))
               /\ last' = [op |-> "packet_new", how |-> "err_unknown"]
               /\ UNCHANGED pkt
          ELSE /\ SetG(r.g)
               /\ last' = [op |-> "packet_new", how |-> "ok"]
               /\ pkt' = [pkt EXCEPT ![p] =
                            [st |-> "owned", origin |-> "new", releases |-> 0,
                             handoff |-> "na", bytes |-> bytes, vec |-> v,
                             rec |-> RecordOfNew(v), reclaimed |-> <<>>]]
    /\ UNCHANGED <<host, built, dropLog, compressor, panic, peer, view, nullReclaim, lastData, valVars>>

\* packet.rs:81-87  a Packet the caller owns goes out of scope.
PacketDrop(p) ==
    /\ pkt[p].st = "owned"
    /\ LET c == Packet_drop([k |-> pkt[p], g |-> G])
       IN /\ pkt' = [pkt EXCEPT ![p] = [c.k EXCEPT !.st = "done"]]
          /\ SetG(c.g)
    /\ last' = [op |-> "packet_drop", how |-> "ok"]
    /\ UNCHANGED <<host, built, dropLog, compressor, panic, peer, view, nullReclaim, lastData, valVars>>

\* packet.rs:66-73  the caller reads Packet::data().
PacketData(p, bytes) ==
    /\ pkt[p].st = "owned"
    /\ bytes \in PacketDataResults(pkt[p])
    /\ lastData' = [p |-> p, bytes |-> bytes]
    /\ last' = [op |-> "packet_data", how |-> "ok"]
    /\ UNCHANGED <<initVars, host, built, dropLog, compressor, panic, peer, view, nullReclaim, pkt, valVars>>

(***************************************************************************)
(* Peers and their attached data (src/src/peer.rs)                         *)
(***************************************************************************)

Slots == 1..MaxPeers
UnusedPeer == [state |-> "unused", data |-> "null", leaked |-> FALSE]
NoView == [kind |-> "none", slot |-> 0, disconnecting |-> FALSE]

\* The peer array together with the record of reclamations of a null pointer.
M == [peers |-> peer, bad |-> nullReclaim]

\* peer.rs:69-76  PeerMut::drop_data: Box::from_raw(peer.data) is dropped
\* and the pointer cleared, whatever the pointer was.
PeerMut_drop_data(m, s) ==
    [peers |-> [m.peers EXCEPT ![s].data = "null"],
     bad |-> m.bad \/ m.peers[s].data = "null"]

\* peer.rs:265-271  Drop for PeerMut
PeerMut_drop_always(m, v) == PeerMut_drop_data(m, v.slot)
PeerMut_drop(m, v) ==
    IF v.disconnecting THEN PeerMut_drop_data(m, v.slot) ELSE m

\* peer.rs:110-112  PeerMut::into_raw takes self by value: the view is
\* dropped at the end of the function, before the native call is made.
PeerMut_into_raw(m, v) == PeerMut_drop(m, v)

\* The two-argument PeerMut::from_raw that host.rs calls (host.rs:94, 145,
\* 194, 198, 206): the view of a slot, with T installed in the slot if it
\* has none yet.
PeerMut_from_raw(m, s, disconnecting) ==
    [m |-> [m EXCEPT !.peers[s].data = "T"],
     v |-> [kind |-> "mut", slot |-> s, disconnecting |-> disconnecting]]

\* peer.rs:98-108  PeerMut::connecting: a fresh T is installed in the slot
\* whatever its data pointer was; a T the pointer referred to is left
\* allocated with nothing referring to it any more (leaked).
PeerMut_connecting(m, s) ==
    [m |-> [m EXCEPT !.peers[s].leaked = @ \/ m.peers[s].data # "null",
                     !.peers[s].data = "T"],
     v |-> [kind |-> "mut", slot |-> s, disconnecting |-> FALSE]]

\* peer.rs:28-34  Peer::from_raw: a read-only view, nothing is installed.
Peer_from_raw(s) == [kind |-> "ref", slot |-> s, disconnecting |-> FALSE]

\* peer::drop_data as Host's destructor calls it (host.rs:227): the slot's
\* T is reclaimed if it has one.
peer_drop_data(m, s) ==
    IF m.peers[s].data = "null" THEN m
    ELSE [m EXCEPT !.peers[s].data = "null"]

\* host.rs:134, 144  the filter of peers() and peers_mut().
ListedUnfiltered(pr) == TRUE
Listed(pr) == pr.data # "null"

\* The native engine: what a disconnect request makes of a slot's state.
NativeDisconnect(st) ==
    CASE st = "connected" -> {"disconnecting"}
      [] st = "connecting" -> {"disconnecting", "unused"}
      [] OTHER -> {st}

\* The native engine: enet_peer_send rejects a packet for a peer that is
\* not connected, and may reject one for a connected peer.
NativeSendRets(st) == IF st = "connected" THEN {0, -1} ELSE {-1}

\* The view is a PeerMut.
HoldsMut == view.kind = "mut"

SetM(m) == peer' = m.peers /\ nullReclaim' = m.bad

\* A view goes out of scope (peer.rs:265-271; Peer has no destructor).
ViewDrop ==
    /\ view.kind # "none"
    /\ SetM(IF HoldsMut THEN PeerMut_drop(M, view) ELSE M)
    /\ view' = NoView
    /\ last' = [op |-> "view_drop", how |-> "ok"]
    /\ UNCHANGED <<initVars, host, built, dropLog, compressor, panic, pktVars, valVars>>

\* peer.rs:117-130  PeerMut::disconnect and PeerMut::disconnect_later
PeerDisconnect(next) ==
    /\ HoldsMut
    /\ LET m == PeerMut_into_raw(M, view)
       IN /\ next \in NativeDisconnect(m.peers[view.slot].state)
          /\ SetM([m EXCEPT !.peers[view.slot].state = next])
    /\ view' = NoView
    /\ last' = [op |-> "disconnect", how |-> "ok"]
    /\ UNCHANGED <<initVars, host, built, dropLog, compressor, panic, pktVars, valVars>>

\* peer.rs:135-141  PeerMut::disconnect_now
PeerDisconnectNow ==
    /\ HoldsMut
    /\ LET m == PeerMut_into_raw(PeerMut_drop_data(M, view.slot), view)
       IN SetM([m EXCEPT !.peers[view.slot].state = "unused"])
    /\ view' = NoView
    /\ last' = [op |-> "disconnect_now", how |-> "ok"]
    /\ UNCHANGED <<initVars, host, built, dropLog, compressor, panic, pktVars, valVars>>

\* peer.rs:169-173  PeerMut::reset
PeerReset ==
    /\ HoldsMut
    /\ LET m == PeerMut_into_raw(M, view)
       IN SetM([m EXCEPT !.peers[view.slot].state = "unused"])
    /\ view' = NoView
    /\ last' = [op |-> "reset", how |-> "ok"]
    /\ UNCHANGED <<initVars, host, built, dropLog, compressor, panic, pktVars, valVars>>

\* peer.rs:176-185  PeerMut::send(packet); ret is what enet_peer_send returns.
PeerSend(p, ret) ==
    /\ HoldsMut
    /\ pkt[p].st = "owned"
    /\ ret \in NativeSendRets(peer[view.slot].state)
    /\ LET c == Packet_into_raw([k |-> pkt[p], g |-> G])
       IN /\ pkt' = [pkt EXCEPT ![p] =
                       [c.k EXCEPT !.handoff = AllocState(c.k),
                                   !.st = IF ret < 0 THEN "done" ELSE "native"]]
          /\ SetG(c.g)
    /\ last' = [op |-> "send", how |-> IF ret < 0 THEN "err_unknown" ELSE "ok"]
    /\ UNCHANGED <<host, built, dropLog, compressor, panic, peer, view, nullReclaim, lastData, valVars>>

\* peer.rs:152-164  PeerMut::receive; p is the packet enet_peer_receive
\* returns, 0 for none.  Packet::from_raw (packet.rs:16-22) takes a guard.
PeerReceive(p, initRet) ==
    /\ HoldsMut
    /\ p # 0 => pkt[p].st = "free" /\ peer[view.slot].state = "connected"
    /\ IF p = 0
       THEN /\ last' = [op |-> "receive", how |-> "ok_none"]
            /\ UNCHANGED <<initVars, pkt>>
       ELSE LET r == InitGuard_new(G, initRet)
            IN /\ SetG(r.g)
               /\ last' = [op |-> "receive",
                           how |-> IF r.ok THEN "ok" ELSE "panic"]
               /\ pkt' = IF r.ok
                         THEN [pkt EXCEPT ![p] =
                                 [FreePkt EXCEPT !.st = "owned",
                                                 !.origin = "recv",
                                                 !.rec.data = <<"native", p>>]]
                         ELSE pkt
    /\ UNCHANGED <<host, built, dropLog, compressor, panic, peer, view, nullReclaim, lastData, valVars>>

(***************************************************************************)
(* Host and the compressor bridge (src/src/host.rs)                        *)
(***************************************************************************)

\* What one run of the user's compressor capability inside a native
\* callback does: it returns Ok, returns Err, or panics with a payload.
Payloads == {"p1", "p2"}
CallbackOutcomes == {"ok", "err"} \cup Payloads
CallbackRuns == UNION {[1..n -> CallbackOutcomes] : n \in 0..MaxCallbacks}

\* host.rs:416-423, 455-462  the bridge's handling of the capability's
\* result: a caught panic is stored in the context.
Callback(pn, o) == IF o \in Payloads THEN o ELSE pn

\* The context after the callbacks of one native call, in order.
RECURSIVE RunCallbacks(_, _)
RunCallbacks(pn, cbs) ==
    IF cbs = <<>> THEN pn
    ELSE RunCallbacks(Callback(pn, Head(cbs)), Tail(cbs))

\* host.rs:148-152  panic_check: a buffered panic is taken and resumed.
panic_check(pn) == [raise |-> pn # "none", panic |-> "none"]

\* The events the native engine can report for slot s, and the slot's state
\* once it has reported them.
EventPossible(ev, s, p) ==
    CASE ev = "none" -> s = 0 /\ p = 0
      [] ev = "connect" ->
            s \in Slots /\ p = 0 /\ peer[s].state \in {"unused", "connecting"}
      [] ev = "disconnect" ->
            /\ s \in Slots /\ p = 0
            /\ peer[s].state \in {"connecting", "connected", "disconnecting"}
      [] ev = "receive" ->
            /\ s \in Slots /\ p \in Packets
            /\ peer[s].state \in {"connected", "disconnecting"}
            /\ pkt[p].st = "free"

AfterEvent(pr, ev, s) ==
    CASE ev = "connect" -> [pr EXCEPT ![s].state = "connected"]
      [] ev = "disconnect" -> [pr EXCEPT ![s].state = "unused"]
      [] OTHER -> pr

\* host.rs:204  the guard a received packet gets: a clone of the host's.
ReceivedGuardNotCounted(g) == g
ReceivedGuard(g) == InitGuard_clone(g)

\* host.rs:189-212  translate_event: the view, and for Receive the packet.
translate_event(m, g, pk, ev, s, p) ==
    CASE ev = "none" -> [m |-> m, v |-> NoView, g |-> g, pk |-> pk]
      [] ev = "connect" ->
            LET f == PeerMut_from_raw(m, s, FALSE)
            IN [m |-> f.m, v |-> f.v, g |-> g, pk |-> pk]
      [] ev = "disconnect" ->
            LET f == PeerMut_from_raw(m, s, TRUE)
            IN [m |-> f.m, v |-> f.v, g |-> g, pk |-> pk]
      [] ev = "receive" ->
            LET f == PeerMut_from_raw(m, s, FALSE)
            IN [m |-> f.m, v |-> f.v, g |-> ReceivedGuard(g),
                pk |-> [pk EXCEPT ![p] =
                          [FreePkt EXCEPT !.st = "owned", !.origin = "recv",
                                          !.rec.data = <<"native", p>>]]]

HostIdle == host = "alive" /\ view.kind = "none"

\* host.rs:238-241  an Option field of the builder: None until its setter
\* (host.rs:272-299) is called with a value.
None == [set |-> FALSE, v |-> 0]
Some(n) == [set |-> TRUE, v |-> n]

\* host.rs:22  MAXIMUM_CHANNEL_COUNT (ENET_PROTOCOL_MAXIMUM_CHANNEL_COUNT)
MAXIMUM_CHANNEL_COUNT == 255

\* A builder on which no setter was called (host.rs:236-244).
DefaultCfg ==
    [addr |-> "unset", peer_count |-> None, channel_limit |-> None,
     incoming_bandwidth |-> None, outgoing_bandwidth |-> None]

\* host.rs:321, 327, 333, 339  `Some(0) => return Err(InvalidArgument)`
ZeroSetNever(o) == FALSE
ZeroSet(o) == o.set /\ o.v = 0

\* host.rs:320-324  the peer count given to enet_host_create
build_peer_count(o) == IF o.set THEN o.v ELSE 1

\* host.rs:326-330  the channel limit given to enet_host_create
build_channel_limit(o) == IF o.set THEN o.v ELSE 1

\* host.rs:332-336  the incoming bandwidth given to enet_host_create
build_incoming_bandwidth(o) == IF o.set THEN o.v ELSE 1

\* host.rs:338-342  the outgoing bandwidth given to enet_host_create
build_outgoing_bandwidth(o) == IF o.set THEN o.v ELSE 1

\* host.rs:320-342  the first validation that fails, in the order of the code
BuildInvalid(cfg) ==
    \/ ZeroSet(cfg.peer_count)
    \/ ZeroSet(cfg.channel_limit)
    \/ ZeroSet(cfg.incoming_bandwidth)
    \/ ZeroSet(cfg.outgoing_bandwidth)

\* host.rs:346-354  the arguments of enet_host_create
NoArgs ==
    [bound |-> FALSE, peer_count |-> 0, channel_limit |-> 0,
     incoming_bandwidth |-> 0, outgoing_bandwidth |-> 0]
CreateArgs(cfg) ==
    [bound |-> cfg.addr = "ok",
     peer_count |-> build_peer_count(cfg.peer_count),
     channel_limit |-> build_channel_limit(cfg.channel_limit),
     incoming_bandwidth |-> build_incoming_bandwidth(cfg.incoming_bandwidth),
     outgoing_bandwidth |-> build_outgoing_bandwidth(cfg.outgoing_bandwidth)]

\* The native engine: the channel limit enet_host_create gives a host,
\* where 0 and anything above the maximum stand for the maximum.
NativeChannelLimit(arg) ==
    IF arg = 0 \/ arg > MAXIMUM_CHANNEL_COUNT THEN MAXIMUM_CHANNEL_COUNT
    ELSE arg

NoNative == [cfg |-> DefaultCfg, args |-> NoArgs]

\* host.rs:226-228  the destructor's loop over the peer array.
RECURSIVE DropAllData(_, _)
DropAllData(m, n) ==
    IF n = 0 THEN m ELSE peer_drop_data(DropAllData(m, n - 1), n)

\* The slots of 1..n that have T installed, in ascending order: the slots
\* whose T the loop of host.rs:226-228 reclaims.
RECURSIVE ReclaimLog(_, _)
ReclaimLog(m, n) ==
    IF n = 0 THEN <<>>
    ELSE ReclaimLog(m, n - 1) \o
         (IF m.peers[n].data = "null" THEN <<>>
          ELSE <<[step |-> "reclaim", slot |-> n, up |-> TRUE, native |-> TRUE,
                  withT |-> {}]>>)

\* host.rs:222-232  the body of Drop for Host: every slot's T, then
\* enet_host_destroy, which releases the packets the host still has queued.
\* c holds the peer array, the guard state, the packets, whether the native
\* host exists, and the log of what was done.
Host_drop_body(c) ==
    LET m == DropAllData(c.m, MaxPeers)
    IN [c EXCEPT
          !.m = [m EXCEPT !.peers =
                   [s \in Slots |-> [m.peers[s] EXCEPT !.state = "unused"]]],
          !.pk = Complete(c.pk, {p \in Packets : c.pk[p].st = "native"}),
          !.native = FALSE,
          !.log = c.log \o ReclaimLog(c.m, MaxPeers) \o
                  <<[step |-> "destroy_host", slot |-> 0, up |-> c.g.up,
                     native |-> c.native,
                     withT |-> {s \in Slots : m.peers[s].data # "null"}]>>]

\* host.rs:25-32  the fields of Host are dropped after the body of its
\* destructor has run: the guard (the context and the pointer own nothing
\* of the engine).
Host_drop_fields(c) ==
    [c EXCEPT
       !.g = InitGuard_drop(c.g),
       !.log = Append(c.log, [step |-> "release_guard", slot |-> 0,
                              up |-> c.g.up, native |-> c.native,
                              withT |-> {}])]

\* host.rs:221-233 and 25-32  dropping a Host: the destructor's body, then
\* the fields.
Host_drop_fields_first(c) == Host_drop_body(Host_drop_fields(c))
Host_drop(c) == Host_drop_fields(Host_drop_body(c))

\* A Host goes out of scope.
HostDrop ==
    /\ HostIdle
    /\ LET c == Host_drop([m |-> M, g |-> G, pk |-> pkt, native |-> TRUE,
                           log |-> <<>>])
       IN /\ SetM(c.m)
          /\ pkt' = c.pk
          /\ SetG(c.g)
          /\ dropLog' = c.log
    /\ host' = "none"
    /\ built' = [built EXCEPT !.args = NoArgs]
    /\ compressor' = "none"
    /\ panic' = "none"
    /\ last' = [op |-> "host_drop", how |-> "ok"]
    /\ UNCHANGED <<view, lastData, valVars>>

\* host.rs:308-374  HostBuilder::build: cfg is the builder's configuration,
\* kind the configured compressor, initRet what enet_initialize returns,
\* created whether enet_host_create returns a host, coderOk whether the
\* range coder can be installed.  When enet_host_create returns null the
\* guard, still a local, is dropped (host.rs:357-359); when set_compressor
\* fails the Host already made is dropped (host.rs:371).
HostBuild(cfg, kind, initRet, created, coderOk) ==
    /\ host = "none"
    /\ IF cfg.addr = "err"
       THEN /\ last' = [op |-> "build", how |-> "err_io"]
            /\ built' = [built EXCEPT !.cfg = cfg]
            /\ dropLog' = <<>>
            /\ UNCHANGED <<initVars, host, compressor, panic>>
       ELSE IF BuildInvalid(cfg)
       THEN /\ last' = [op |-> "build", how |-> "err_invalid"]
            /\ built' = [built EXCEPT !.cfg = cfg]
            /\ dropLog' = <<>>
            /\ UNCHANGED <<initVars, host, compressor, panic>>
       ELSE LET r == InitGuard_new(G, initRet)
            IN IF ~r.ok
               THEN /\ SetG(r.g)
                    /\ dropLog' = <<>>
                    /\ last' = [op |-> "build", how |-> "err_init"]
                    /\ built' = [built EXCEPT !.cfg = cfg]
                    /\ UNCHANGED <<host, compressor, panic>>
               ELSE IF ~created
               THEN /\ SetG(InitGuard_drop(r.g))
                    /\ dropLog' = <<[step |-> "release_guard", slot |-> 0,
                                     up |-> r.g.up, native |-> FALSE,
                                     withT |-> {}]>>
                    /\ last' = [op |-> "build", how |-> "err_unknown"]
                    /\ built' = [built EXCEPT !.cfg = cfg]
                    /\ UNCHANGED <<host, compressor, panic>>
               ELSE IF kind = "range" /\ ~coderOk
               THEN LET c == Host_drop([m |-> M, g |-> r.g, pk |-> pkt,
                                        native |-> TRUE, log |-> <<>>])
                    IN /\ SetG(c.g)
                       /\ dropLog' = c.log
                       /\ last' = [op |-> "build", how |-> "err_unknown"]
                       /\ built' = [built EXCEPT !.cfg = cfg]
                       /\ UNCHANGED <<host, compressor, panic>>
               ELSE /\ SetG(r.g)
                    /\ dropLog' = <<>>
                    /\ last' = [op |-> "build", how |-> "ok"]
                    /\ built' = [cfg |-> cfg, args |-> CreateArgs(cfg)]
                    /\ host' = "alive"
                    /\ compressor' = kind
                    /\ panic' = "none"
    /\ UNCHANGED <<peer, view, nullReclaim, pktVars, valVars>>

\* The slots of the host's peer array (host.rs:350: peer_count of them).
HostSlots == {s \in Slots : s <= built.args.peer_count}

\* The slot enet_host_connect takes: the first unused one, 0 if none.
FirstUnused ==
    IF \E s \in HostSlots : peer[s].state = "unused"
    THEN CHOOSE s \in HostSlots :
            /\ peer[s].state = "unused"
            /\ \A u \in HostSlots : peer[u].state = "unused" => s <= u
    ELSE 0

\* The wrapper takes a slot out of the unused state for an outgoing
\* connection (as enet_host_connect does, host.rs:88-92) and makes its
\* view with PeerMut::connecting, which installs T.
ConnectingView ==
    /\ HostIdle
    /\ FirstUnused # 0
    /\ LET s == FirstUnused
           f == PeerMut_connecting(
                   [M EXCEPT !.peers[s].state = "connecting"], s)
       IN SetM(f.m) /\ view' = f.v
    /\ last' = [op |-> "connecting", how |-> "ok"]
    /\ UNCHANGED <<initVars, host, built, dropLog, compressor, panic, pktVars,
                   valVars>>

\* host.rs:73-75  `if channel_count == 0 { return Err(InvalidArgument) }`
ConnectInvalidNever(channel_count) == FALSE
ConnectInvalid(channel_count) == channel_count = 0

\* host.rs:67-98  Host::connect: addrs is what the address resolves to.
HostConnect(addrs, channel_count) ==
    /\ HostIdle
    /\ IF ConnectInvalid(channel_count)
       THEN /\ last' = [op |-> "connect", how |-> "err_invalid",
                        channel_count |-> channel_count]
            /\ UNCHANGED <<peer, view, nullReclaim>>
       ELSE IF addrs = "unresolved"
       THEN /\ last' = [op |-> "connect", how |-> "err_io",
                        channel_count |-> channel_count]
            /\ UNCHANGED <<peer, view, nullReclaim>>
       ELSE IF addrs = "v6"
       THEN /\ last' = [op |-> "connect", how |-> "err_invalid",
                        channel_count |-> channel_count]
            /\ UNCHANGED <<peer, view, nullReclaim>>
       ELSE IF FirstUnused = 0
       THEN /\ last' = [op |-> "connect", how |-> "err_unknown",
                        channel_count |-> channel_count]
            /\ UNCHANGED <<peer, view, nullReclaim>>
       ELSE LET s == FirstUnused
                f == PeerMut_from_raw(
                        [M EXCEPT !.peers[s].state = "connecting"], s, FALSE)
            IN /\ SetM(f.m)
               /\ view' = f.v
               /\ last' = [op |-> "connect", how |-> "ok",
                           channel_count |-> channel_count]
    /\ UNCHANGED <<initVars, host, built, dropLog, compressor, panic, pktVars, valVars>>

\* host.rs:109-126  Host::service: the native call runs the callbacks of
\* cbs, finishes with the queued packets of done and returns ret with the
\* event ev; a negative ret leads to panic_check and an error, any other
\* ret to translate_event.
HostService(ret, ev, s, p, cbs, done) ==
    /\ HostIdle
    /\ cbs # <<>> => compressor = "custom"
    /\ done \subseteq Queued
    /\ EventPossible(ev, s, p)
    /\ (ev # "none") <=> (ret > 0)
    /\ LET pn == RunCallbacks(panic, cbs)
           pk == Complete(pkt, done)
       IN IF ret < 0
          THEN LET c == panic_check(pn)
               IN /\ panic' = c.panic
                  /\ last' = [op |-> "service",
                              how |-> IF c.raise THEN "panic" ELSE "err_unknown"]
                  /\ pkt' = pk
                  /\ UNCHANGED <<initVars, peer, view, nullReclaim>>
          ELSE LET t == translate_event(
                            [M EXCEPT !.peers = AfterEvent(peer, ev, s)],
                            G, pk, ev, s, p)
               IN /\ panic' = pn
                  /\ SetM(t.m)
                  /\ view' = t.v
                  /\ SetG(t.g)
                  /\ pkt' = t.pk
                  /\ last' = [op |-> "service",
                              how |-> IF ev = "none" THEN "ok_none" ELSE "ok_event"]
    /\ UNCHANGED <<host, built, dropLog, compressor, lastData, valVars>>

\* host.rs:48-62  Host::check_events: the native call only hands out an
\* event that is already queued.
HostCheckEvents(ret, ev, s, p) ==
    /\ HostIdle
    /\ EventPossible(ev, s, p)
    /\ (ev # "none") <=> (ret > 0)
    /\ IF ret < 0
       THEN LET c == panic_check(panic)
            IN /\ panic' = c.panic
               /\ last' = [op |-> "check_events",
                           how |-> IF c.raise THEN "panic" ELSE "err_unknown"]
               /\ UNCHANGED <<initVars, peer, view, nullReclaim, pkt>>
       ELSE IF ret = 0
       THEN /\ last' = [op |-> "check_events", how |-> "ok_none"]
            /\ UNCHANGED <<initVars, panic, peer, view, nullReclaim, pkt>>
       ELSE LET t == translate_event(
                         [M EXCEPT !.peers = AfterEvent(peer, ev, s)],
                         G, pkt, ev, s, p)
            IN /\ SetM(t.m)
               /\ view' = t.v
               /\ SetG(t.g)
               /\ pkt' = t.pk
               /\ last' = [op |-> "check_events", how |-> "ok_event"]
               /\ UNCHANGED panic
    /\ UNCHANGED <<host, built, dropLog, compressor, lastData, valVars>>

\* host.rs:102-106  Host::flush: queued packets go out, through the
\* compressor callbacks if a custom compressor is installed.
HostFlush(cbs) ==
    /\ HostIdle
    /\ cbs # <<>> => compressor = "custom"
    /\ panic' = RunCallbacks(panic, cbs)
    /\ last' = [op |-> "flush", how |-> "ok"]
    /\ UNCHANGED <<initVars, host, built, dropLog, compressor, peer, view, nullReclaim, pktVars, valVars>>

\* host.rs:41-45  Host::broadcast(packet): the engine queues the packet for
\* every connected peer and destroys it at once when there is none.
HostBroadcast(p) ==
    /\ HostIdle
    /\ pkt[p].st = "owned"
    /\ LET c == Packet_into_raw([k |-> pkt[p], g |-> G])
           k == [c.k EXCEPT !.handoff = AllocState(c.k)]
       IN /\ pkt' = [pkt EXCEPT ![p] =
                       IF \E s \in Slots : peer[s].state = "connected"
                       THEN [k EXCEPT !.st = "native"]
                       ELSE [NativeDestroy(k) EXCEPT !.st = "done"]]
          /\ SetG(c.g)
    /\ last' = [op |-> "broadcast", how |-> "ok"]
    /\ UNCHANGED <<host, built, dropLog, compressor, panic, peer, view, nullReclaim, lastData, valVars>>

\* host.rs:129-136  Host::peers yields a read-only view of a listed slot.
HostPeers(s) ==
    /\ HostIdle
    /\ Listed(peer[s])
    /\ view' = Peer_from_raw(s)
    /\ last' = [op |-> "peers", how |-> "ok"]
    /\ UNCHANGED <<initVars, host, built, dropLog, compressor, panic, peer, nullReclaim, pktVars, valVars>>

\* host.rs:139-146  Host::peers_mut yields a mutable view of a listed slot.
HostPeersMut(s) ==
    /\ HostIdle
    /\ Listed(peer[s])
    /\ LET f == PeerMut_from_raw(M, s, FALSE)
       IN SetM(f.m) /\ view' = f.v
    /\ last' = [op |-> "peers_mut", how |-> "ok"]
    /\ UNCHANGED <<initVars, host, built, dropLog, compressor, panic, pktVars, valVars>>

(***************************************************************************)
(* Packet delivery options (src/src/packet.rs, Flags)                      *)
(***************************************************************************)

\* Bitwise OR and AND of two unsigned integers.
RECURSIVE BitOr(_, _)
BitOr(a, b) ==
    IF a = 0 THEN b
    ELSE IF b = 0 THEN a
    ELSE (IF a % 2 = 1 \/ b % 2 = 1 THEN 1 ELSE 0) + 2 * BitOr(a \div 2, b \div 2)

RECURSIVE BitAnd(_, _)
BitAnd(a, b) ==
    IF a = 0 \/ b = 0 THEN 0
    ELSE (IF a % 2 = 1 /\ b % 2 = 1 THEN 1 ELSE 0) + 2 * BitAnd(a \div 2, b \div 2)

\* The native flag bits the methods of Flags use (packet.rs:110-148).
ENET_PACKET_FLAG_RELIABLE == 1
ENET_PACKET_FLAG_UNSEQUENCED == 2
ENET_PACKET_FLAG_UNRELIABLE_FRAGMENT == 8

\* packet.rs:151-153  check_flag
check_flag(f, flag) == BitAnd(f, flag) = flag

\* packet.rs:109-117  Flags::reliable: panics if unsequenced is set.
Flags_reliable_unchecked(f) ==
    [ok |-> TRUE, v |-> BitOr(f, ENET_PACKET_FLAG_RELIABLE)]
Flags_reliable(f) ==
    IF check_flag(f, ENET_PACKET_FLAG_UNSEQUENCED)
    THEN [ok |-> FALSE, v |-> f]
    ELSE [ok |-> TRUE, v |-> BitOr(f, ENET_PACKET_FLAG_RELIABLE)]

\* packet.rs:126-134  Flags::unsequenced: panics if reliable is set.
Flags_unsequenced(f) ==
    IF check_flag(f, ENET_PACKET_FLAG_RELIABLE)
    THEN [ok |-> FALSE, v |-> f]
    ELSE [ok |-> TRUE, v |-> BitOr(f, ENET_PACKET_FLAG_UNSEQUENCED)]

\* packet.rs:141-145  Flags::unreliable_fragment
Flags_unreliable_fragment(f) ==
    [ok |-> TRUE, v |-> BitOr(f, ENET_PACKET_FLAG_UNRELIABLE_FRAGMENT)]

\* The Flags values the caller keeps (Flags is Copy, packet.rs:100).
FlagVars == 1..MaxFlagVars

\* The method of Flags that op names, applied to f.
FlagsCall(op, f) ==
    CASE op = "reliable" -> Flags_reliable(f)
      [] op = "unsequenced" -> Flags_unsequenced(f)
      [] op = "unreliable_fragment" -> Flags_unreliable_fragment(f)

\* packet.rs:100  Flags::default() is stored in j.
FlagsDefault(j) ==
    /\ flags' = [vals |-> [flags.vals EXCEPT ![j] = 0],
                 call |-> [op |-> "default", arg |-> 0, how |-> "ok"]]
    /\ UNCHANGED <<initVars, hostVars, pktVars, out, cb, timeouts>>

\* A builder method of Flags is called on the value in i; its result, if
\* the call returns, is stored in j.
FlagsMethod(op, i, j) ==
    /\ LET r == FlagsCall(op, flags.vals[i])
       IN flags' = [vals |-> IF r.ok THEN [flags.vals EXCEPT ![j] = r.v]
                             ELSE flags.vals,
                    call |-> [op |-> op, arg |-> flags.vals[i],
                              how |-> IF r.ok THEN "ok" ELSE "panic"]]
    /\ UNCHANGED <<initVars, hostVars, pktVars, out, cb, timeouts>>

\* packet.rs:156-164  Debug for Flags: the three fields are computed with
\* reliable(), unsequenced() and unreliable_fragment(), each called on the
\* value being formatted; formatting returns if none of them panics.
Flags_fmt(f) ==
    [ok |-> /\ Flags_reliable(f).ok
            /\ Flags_unsequenced(f).ok
            /\ Flags_unreliable_fragment(f).ok,
     v |-> f]

\* The value in i is formatted with {:?}.
FlagsDebug(i) ==
    /\ flags' = [vals |-> flags.vals,
                 call |-> [op |-> "fmt", arg |-> flags.vals[i],
                           how |-> IF Flags_fmt(flags.vals[i]).ok
                                   THEN "ok" ELSE "panic"]]
    /\ UNCHANGED <<initVars, hostVars, pktVars, out, cb, timeouts>>

FlagsInit ==
    flags = [vals |-> [i \in FlagVars |-> 0],
             call |-> [op |-> "default", arg |-> 0, how |-> "ok"]]

InitInit ==
    /\ refCount = 0
    /\ engine = FALSE
    /\ lock = NoThread
    /\ pc = [t \in Threads |-> "idle"]
    /\ guards = 0
    /\ lastCall = "none"

HostInit ==
    /\ host = "none"
    /\ built = NoNative
    /\ dropLog = <<>>
    /\ compressor = "none"
    /\ panic = "none"
    /\ peer = [s \in Slots |-> UnusedPeer]
    /\ view = NoView
    /\ nullReclaim = FALSE
    /\ last = [op |-> "none", how |-> "none"]

PktInit ==
    /\ pkt = [p \in Packets |-> FreePkt]
    /\ lastData = [p |-> 0, bytes |-> <<>>]

(***************************************************************************)
(* The output buffer of a compressor callback (src/src/compress.rs)        *)
(***************************************************************************)

\* The content of a cell of native memory nothing was written to yet.
Unwritten == -1

\* host.rs:403-407, 442-446  the OutputBuffer a callback builds over the
\* native output area of the given length; total, cat and writes keep the
\* sum of the lengths of the successful writes, their data in order, and
\* the number of write calls.
OutputBuffer_new(length) ==
    [length |-> length, written |-> 0,
     buffer |-> [i \in 1..length |-> Unwritten],
     total |-> 0, cat |-> <<>>, writes |-> 0, how |-> "new"]

\* compress.rs:98-110  Write::write for OutputBuffer: the bounds check,
\* the copy to buffer.add(i) for each index i of data, and Ok(data.len()).
OutputBuffer_write(o, data) ==
    IF o.written + Len(data) > o.length
    THEN [o EXCEPT !.writes = @ + 1, !.how = "err_write_zero"]
    ELSE [o EXCEPT
            !.buffer = [i \in 1..o.length |->
                          IF i <= Len(data) THEN data[i] ELSE o.buffer[i]],
            !.total = @ + Len(data),
            !.cat = @ \o data,
            !.writes = @ + 1,
            !.how = "ok"]

\* compress.rs:80-83  OutputBuffer::len
OutputBuffer_len(o) == o.length

\* compress.rs:85-87  OutputBuffer::is_empty: `self.length != 0`
OutputBuffer_is_empty(o) == o.length # 0

\* compress.rs:89-92  OutputBuffer::written
OutputBuffer_written(o) == o.written

\* A native compressor callback starts: it builds the OutputBuffer.
OutNew(length) ==
    /\ out' = OutputBuffer_new(length)
    /\ UNCHANGED <<initVars, hostVars, pktVars, flags, cb, timeouts>>

\* The compressor writes data to the OutputBuffer it was given.
OutWrite(data) ==
    /\ out.how # "returned"
    /\ out.writes < MaxWrites
    /\ out' = OutputBuffer_write(out, data)
    /\ UNCHANGED <<initVars, hostVars, pktVars, flags, cb, timeouts>>

\* host.rs:416-423, 455-462  what a native entry point returns to the
\* engine once the capability has returned Ok ("ok"), returned Err ("err")
\* or panicked with a payload.
EntryReturn(o, outcome) ==
    IF outcome = "ok" THEN OutputBuffer_written(o) ELSE 0

\* host.rs:390-424, 426-463  the end of a native compressor entry point:
\* the capability's outcome is caught, a panic is stored in the context
\* and the entry point returns to the engine.
OutReturn(outcome) ==
    /\ compressor = "custom"
    /\ out.how # "returned"
    /\ cb' = [how |-> IF outcome \in Payloads THEN "panic" ELSE outcome,
              ret |-> EntryReturn(out, outcome), total |-> out.total,
              propagated |-> FALSE]
    /\ panic' = Callback(panic, outcome)
    /\ out' = [out EXCEPT !.how = "returned"]
    /\ UNCHANGED <<initVars, host, built, dropLog, compressor, peer, view,
                   nullReclaim, last, pktVars, flags, timeouts>>

OutInit == out = OutputBuffer_new(0)

(***************************************************************************)
(* PeerMut::set_timeout (src/src/peer.rs)                                  *)
(***************************************************************************)

\* The smaller of two numbers (u128::min).
Min(a, b) == IF a <= b THEN a ELSE b

\* peer.rs:224-230  the closure `millis`: d is an Option<Duration> given in
\* whole milliseconds; the result is the u32 handed to the engine.
millis(d) == IF d.set THEN Min(d.v, 1) ELSE 0

\* peer.rs:218-239  PeerMut::set_timeout(limit, min, max)
PeerSetTimeout(limit, min, max) ==
    /\ HoldsMut
    /\ timeouts' = [args |-> <<limit, min, max>>,
                    sent |-> <<millis(limit), millis(min), millis(max)>>]
    /\ last' = [op |-> "set_timeout", how |-> "ok"]
    /\ UNCHANGED <<initVars, host, built, dropLog, compressor, panic, peer,
                   view, nullReclaim, pktVars, flags, out, cb>>

TimeoutInit == timeouts = [args |-> <<None, None, None>>, sent |-> <<0, 0, 0>>]

CbInit == cb = [how |-> "none", ret |-> 0, total |-> 0, propagated |-> FALSE]

ValInit == FlagsInit /\ OutInit /\ CbInit /\ TimeoutInit

Init == InitInit /\ HostInit /\ PktInit /\ ValInit

NextInit ==
    \E t \in Threads :
        \/ CallNew(t)
        \/ NewLocked(t)
        \/ \E ret \in {-1, 0} : NewNativeReturn(t, ret)
        \/ CallClone(t)
        \/ CloneLocked(t)
        \/ CallDrop(t)
        \/ DropLocked(t)
        \/ DropNativeReturn(t)

SpecInit == Init /\ [][NextInit]_vars

\* The configuration of the hosts of the specifications about peers and
\* packets: peer_count(MaxPeers), nothing else set.
PeerCfg == [DefaultCfg EXCEPT !.peer_count = Some(MaxPeers)]

\* The events a call of service or check_events can be given.
EventKinds == {"none", "connect", "disconnect", "receive"}

\* One thread using a host without a custom compressor, its peers and their
\* attached data: every operation that creates, uses or ends a view.
NextPeer ==
    \/ \E kind \in {"none", "range"}, initRet \in InitRets, created, coderOk \in BOOLEAN :
            HostBuild(PeerCfg, kind, initRet, created, coderOk)
    \/ HostDrop
    \/ \E addrs \in {"v4", "v6", "unresolved"}, n \in 0..1 : HostConnect(addrs, n)
    \/ \E ret \in -1..1, ev \in EventKinds, s \in Slots \cup {0}, p \in Packets \cup {0} :
            HostService(ret, ev, s, p, <<>>, {})
    \/ \E ret \in -1..1, ev \in EventKinds, s \in Slots \cup {0}, p \in Packets \cup {0} :
            HostCheckEvents(ret, ev, s, p)
    \/ HostFlush(<<>>)
    \/ \E s \in Slots : HostPeers(s)
    \/ \E s \in Slots : HostPeersMut(s)
    \/ ViewDrop
    \/ \E next \in {"unused", "connecting", "connected", "disconnecting"} :
            PeerDisconnect(next)
    \/ PeerDisconnectNow
    \/ PeerReset
    \/ \E p \in Packets : PacketDrop(p)

SpecPeer == Init /\ [][NextPeer]_vars

\* One thread using a host and packets: every operation that creates a
\* Host or a Packet, hands a packet to the engine or ends a Host or Packet
\* (packets carry no payload here).
NextPkt ==
    \/ \E kind \in {"none", "range"}, initRet \in InitRets, created, coderOk \in BOOLEAN :
            HostBuild(PeerCfg, kind, initRet, created, coderOk)
    \/ HostDrop
    \/ \E addrs \in {"v4", "v6", "unresolved"}, n \in 0..1 : HostConnect(addrs, n)
    \/ \E ret \in -1..1, ev \in EventKinds, s \in Slots \cup {0}, p \in Packets \cup {0},
          done \in SUBSET Queued :
            HostService(ret, ev, s, p, <<>>, done)
    \/ \E ret \in -1..1, ev \in EventKinds, s \in Slots \cup {0}, p \in Packets \cup {0} :
            HostCheckEvents(ret, ev, s, p)
    \/ \E p \in Packets : HostBroadcast(p)
    \/ ViewDrop
    \/ \E p \in Packets, ret \in {-1, 0} : PeerSend(p, ret)
    \/ \E p \in Packets \cup {0}, initRet \in InitRets : PeerReceive(p, initRet)
    \/ \E p \in Packets, initRet \in InitRets, created \in BOOLEAN :
            PacketNew(p, <<>>, 0, initRet, created)
    \/ \E p \in Packets : PacketDrop(p)

SpecPkt == Init /\ [][NextPkt]_vars

\* Packets built from buffers: Packet::new, data() and the destructor.
NextBuf ==
    \/ \E p \in Packets, bytes \in Buffers, slack \in 0..MaxSlack,
          initRet \in InitRets, created \in BOOLEAN :
            PacketNew(p, bytes, slack, initRet, created)
    \/ \E p \in Packets, bytes \in Buffers : PacketData(p, bytes)
    \/ \E p \in Packets : PacketDrop(p)

SpecBuf == Init /\ [][NextBuf]_vars

\* A host with a custom compressor: the calls that run its callbacks.
NextPanic ==
    \/ \E initRet \in InitRets, created \in BOOLEAN :
            HostBuild(PeerCfg, "custom", initRet, created, TRUE)
    \/ HostDrop
    \/ \E addrs \in {"v4", "v6", "unresolved"}, n \in 0..1 : HostConnect(addrs, n)
    \/ \E ret \in -1..1, ev \in {"none", "connect", "disconnect"},
          s \in Slots \cup {0}, cbs \in CallbackRuns :
            HostService(ret, ev, s, 0, cbs, {})
    \/ \E ret \in -1..1, ev \in {"none", "connect", "disconnect"},
          s \in Slots \cup {0} :
            HostCheckEvents(ret, ev, s, 0)
    \/ \E cbs \in CallbackRuns : HostFlush(cbs)
    \/ ViewDrop

SpecPanic == Init /\ [][NextPanic]_vars

\* What a builder's setter can have been given, and the configurations a
\* builder can be in when build is called: addr was not called ("unset"),
\* resolved to an IPv4 address ("ok") or failed to resolve ("err").
CfgOpts(n) == {None} \cup {Some(v) : v \in 0..n}
Configs ==
    [addr : {"unset", "ok", "err"},
     peer_count : CfgOpts(MaxPeers),
     channel_limit : CfgOpts(MaxCfg),
     incoming_bandwidth : CfgOpts(MaxCfg),
     outgoing_bandwidth : CfgOpts(MaxCfg)]

\* Building hosts from every configuration, while packets may keep the
\* engine up between hosts.
NextBuild ==
    \/ \E cfg \in Configs, initRet \in InitRets, created \in BOOLEAN :
            HostBuild(cfg, "none", initRet, created, TRUE)
    \/ HostDrop
    \/ \E addrs \in {"v4", "v6", "unresolved"}, n \in 0..1 : HostConnect(addrs, n)
    \/ ViewDrop
    \/ \E initRet \in InitRets, created \in BOOLEAN :
            PacketNew(1, <<>>, 0, initRet, created)
    \/ PacketDrop(1)

SpecBuild == Init /\ [][NextBuild]_vars

\* Flags values built from the default by the methods of Flags.
NextFlags ==
    \/ \E j \in FlagVars : FlagsDefault(j)
    \/ \E op \in {"reliable", "unsequenced", "unreliable_fragment"},
          i, j \in FlagVars : FlagsMethod(op, i, j)

SpecFlags == Init /\ [][NextFlags]_vars

\* Flags values built from the default, and their Debug formatting.
NextFlagsFmt ==
    \/ \E j \in FlagVars : FlagsDefault(j)
    \/ \E op \in {"reliable", "unsequenced", "unreliable_fragment"},
          i, j \in FlagVars : FlagsMethod(op, i, j)
    \/ \E i \in FlagVars : FlagsDebug(i)

SpecFlagsFmt == Init /\ [][NextFlagsFmt]_vars

\* A compressor writing to the output buffers of successive callbacks.
NextOut ==
    \/ \E length \in 0..MaxOut : OutNew(length)
    \/ \E data \in Buffers : OutWrite(data)

SpecOut == Init /\ [][NextOut]_vars

\* A host with a custom compressor and the native entry points of the
\* bridge: each builds an OutputBuffer, the capability writes to it, and
\* the entry point returns.
NextBridge ==
    \/ \E initRet \in InitRets, created \in BOOLEAN :
            HostBuild(PeerCfg, "custom", initRet, created, TRUE)
    \/ HostDrop
    \/ \E length \in 0..MaxOut : OutNew(length)
    \/ \E data \in Buffers : OutWrite(data)
    \/ \E outcome \in CallbackOutcomes : OutReturn(outcome)

SpecBridge == Init /\ [][NextBridge]_vars

\* The durations set_timeout can be given, in whole milliseconds.
Durations == {None} \cup {Some(ms) : ms \in 0..MaxMillis}

\* A host, a peer and calls of set_timeout on it.
NextTimeout ==
    \/ \E initRet \in InitRets, created \in BOOLEAN :
            HostBuild(PeerCfg, "none", initRet, created, TRUE)
    \/ HostDrop
    \/ \E n \in 0..1 : HostConnect("v4", n)
    \/ ViewDrop
    \/ \E limit, min, max \in Durations : PeerSetTimeout(limit, min, max)

SpecTimeout == Init /\ [][NextTimeout]_vars

\* A host whose outgoing connections get their T from PeerMut::connecting:
\* slots are taken, disconnected, reset and taken again.
NextReuse ==
    \/ \E initRet \in InitRets, created \in BOOLEAN :
            HostBuild(PeerCfg, "none", initRet, created, TRUE)
    \/ HostDrop
    \/ ConnectingView
    \/ \E ret \in -1..1, ev \in {"none", "connect", "disconnect"},
          s \in Slots \cup {0} :
            HostService(ret, ev, s, 0, <<>>, {})
    \/ \E s \in Slots : HostPeersMut(s)
    \/ ViewDrop
    \/ \E next \in {"unused", "connecting", "connected", "disconnecting"} :
            PeerDisconnect(next)
    \/ PeerDisconnectNow
    \/ PeerReset

SpecReuse == Init /\ [][NextReuse]_vars

(***************************************************************************)
(* Claims about InitGuard, checked under SpecInit.                         *)
(***************************************************************************)

AllIdle == \A t \in Threads : Idle(t)

\* C1: between operations (no thread inside new, clone or drop) the stored
\* count equals the number of live guards, and the native engine is
\* initialized if and only if at least one guard is alive.
C1_CountConserved ==
    AllIdle => /\ refCount = guards
               /\ (engine <=> guards > 0)

\* C1 witness: two guards are alive between operations.
C1_Witness == AllIdle /\ guards = 2 /\ refCount = 2 /\ engine

\* A native initialize or deinitialize call runs with the mutex held by the
\* caller and with the count at 0, so no count update and no other native
\* call overlaps it.
NativeCallsExclusive ==
    \A t \in Threads :
        pc[t] \in {"new_native", "drop_native"} =>
            /\ lock = t
            /\ refCount = 0
            /\ \A u \in Threads \ {t} : pc[u] \notin {"new_native", "drop_native"}

\* C2 as amended: initialize is entered only with the engine down and the
\* count at 0 (the count becomes 1 when it succeeds), deinitialize only when
\* the count has just gone from 1 to 0 with the engine up; successful
\* initialize calls and deinitialize calls alternate, starting with
\* initialize, while a failed initialize may be followed by another
\* initialize; no native call overlaps another or a count update.
C2_CallsAlternate ==
    /\ NativeCallsExclusive
    /\ \A t \in Threads :
        /\ pc[t] = "new_native" =>
              ~engine /\ lastCall \in {"none", "deinitialize", "initialize_failed"}
        /\ pc[t] = "drop_native" =>
              engine /\ lastCall = "initialize"

\* C2 witness: a thread is inside enet_deinitialize while another thread
\* waits for the mutex in InitGuard::new.
C2_Witness ==
    \E t, u \in Threads :
        pc[t] = "drop_native" /\ pc[u] = "new_wait" /\ lastCall = "initialize"

\* C2 as stated: every initialize call follows a deinitialize call (or is
\* the first native call), so the two kinds of call strictly alternate.
C2_Original ==
    /\ NativeCallsExclusive
    /\ \A t \in Threads :
        /\ pc[t] = "new_native" => lastCall \in {"none", "deinitialize"}
        /\ pc[t] = "drop_native" => lastCall = "initialize"

(***************************************************************************)
(* Claims about hosts and packets, checked under SpecPkt.                  *)
(***************************************************************************)

\* The Hosts and wrapper-owned Packets that are alive.
Holders == (IF host = "alive" THEN 1 ELSE 0) + Cardinality(Owned)

\* C3: the native engine is initialized whenever a Host or a Packet the
\* wrapper owns is alive, and deinitialized when none is.
C3_EngineFollowsHolders ==
    /\ Holders > 0 => engine
    /\ Holders = 0 => ~engine

\* C3 witness: a packet received from an event is still alive after its
\* Host was dropped, and the engine is up.
C3_Witness ==
    /\ host = "none"
    /\ engine
    /\ \E p \in Packets : pkt[p].st = "owned" /\ pkt[p].origin = "recv"

\* C4: the native allocation of a packet is never released twice, and it
\* has been released exactly once when the packet's life has ended.
C4_Original ==
    \A p \in Packets :
        /\ pkt[p].releases <= 1
        /\ pkt[p].st = "done" => pkt[p].releases = 1

\* C5: when the native send or broadcast operation receives a packet
\* handle, the allocation behind it is still live.
C5_Original == \A p \in Packets : pkt[p].handoff # "freed"

(***************************************************************************)
(* Claims about packet buffers, checked under SpecBuf.                     *)
(***************************************************************************)

\* C6: data() on a packet made by Packet::new returns the bytes of the
\* buffer that was passed in.
C6_Original ==
    lastData.p # 0 => lastData.bytes = pkt[lastData.p].bytes

\* C7: every descriptor the reclamation callback rebuilds has the pointer,
\* length and capacity of the buffer given to Packet::new, and the buffer
\* of a packet whose life has ended was reclaimed exactly once.
C7_Original ==
    \A p \in Packets :
        pkt[p].origin = "new" =>
            /\ \A i \in 1..Len(pkt[p].reclaimed) :
                  pkt[p].reclaimed[i] =
                      [ptr |-> pkt[p].vec.ptr, len |-> pkt[p].vec.len,
                       cap |-> pkt[p].vec.cap]
            /\ pkt[p].st = "done" => Len(pkt[p].reclaimed) = 1

(***************************************************************************)
(* Claims about peers and attached data, checked under SpecPeer.           *)
(***************************************************************************)

\* C8: no sequence of calls makes a reclamation run on a peer slot that has
\* no T installed (which is what a second reclamation of the same T is,
\* the pointer being cleared by the first).
C8_Original == ~nullReclaim

C10_Original ==
    (last.op \in {"service", "check_events"} /\ last.how # "panic")
        => panic = "none"

(***************************************************************************)
(* Claims about HostBuilder::build, checked under SpecBuild.               *)
(***************************************************************************)

\* One of the four numeric settings of the builder was set, and set to zero.
SetToZero(cfg) ==
    \E f \in {"peer_count", "channel_limit", "incoming_bandwidth",
               "outgoing_bandwidth"} : cfg[f] = Some(0)

\* Nothing of the engine or of a host changed: no guard was acquired and no
\* native host created.
NothingAcquired ==
    /\ UNCHANGED <<initVars, host, compressor, panic, peer>>
    /\ built'.args = built.args

\* A step that is a call of build (only build leaves last.op = "build").
BuildReturned == last'.op = "build"

\* C11 as amended: build on a builder whose address failed to resolve fails
\* with the I/O error; otherwise build on a builder with peer_count,
\* channel_limit, incoming_bandwidth or outgoing_bandwidth set to zero
\* fails with InvalidArgument; in both cases it returns before acquiring an
\* InitGuard or creating a native host, so the count and the engine state
\* are unchanged.
C11_FailsFast ==
    [][BuildReturned =>
          /\ built'.cfg.addr = "err" =>
                NothingAcquired /\ last'.how = "err_io"
          /\ (built'.cfg.addr # "err" /\ SetToZero(built'.cfg)) =>
                NothingAcquired /\ last'.how = "err_invalid"]_vars

\* C11 witness: build failed with InvalidArgument on a zero setting while a
\* packet kept the engine up, and the count is still that packet's.
C11_Witness ==
    /\ last = [op |-> "build", how |-> "err_invalid"]
    /\ SetToZero(built.cfg)
    /\ host = "none"
    /\ engine /\ refCount = 1 /\ guards = 1

\* C11 as stated: build fails with InvalidArgument whenever one of the four
\* settings is zero, and returns before acquiring anything in every such
\* case and when address resolution failed.
C11_Original ==
    [][BuildReturned =>
          /\ SetToZero(built'.cfg) =>
                NothingAcquired /\ last'.how = "err_invalid"
          /\ built'.cfg.addr = "err" => NothingAcquired]_vars

(***************************************************************************)
(* Claims about Flags, checked under SpecFlags.                            *)
(***************************************************************************)

\* The reliable and the unsequenced bit of a flags word.
HasReliable(f) == f % 2 = 1
HasUnsequenced(f) == (f \div 2) % 2 = 1

\* C12: no Flags value built from the default by reliable(), unsequenced()
\* and unreliable_fragment() has both the reliable and the unsequenced bit;
\* a call panics exactly when it would add the second of the two, in
\* either order, and every other call returns a value.
C12_NeverBoth ==
    /\ \A i \in FlagVars :
          ~(HasReliable(flags.vals[i]) /\ HasUnsequenced(flags.vals[i]))
    /\ flags.call.how = "panic" <=>
          \/ flags.call.op = "reliable" /\ HasUnsequenced(flags.call.arg)
          \/ flags.call.op = "unsequenced" /\ HasReliable(flags.call.arg)

\* C12 witness: unsequenced() was called on a reliable value with the
\* fragment bit and panicked, while the caller also holds an unsequenced
\* value with the fragment bit.
C12_Witness ==
    /\ flags.call = [op |-> "unsequenced", arg |-> 9, how |-> "panic"]
    /\ \E i \in FlagVars : flags.vals[i] = 10

(***************************************************************************)
(* Claims about the destructor of Host, checked under SpecPeer.            *)
(***************************************************************************)

\* C13: when a Host is dropped, first the T of every slot that has one is
\* reclaimed (slots without T are skipped), then the native host is
\* destroyed, with no T left and the engine still up, then the Host's
\* InitGuard is released, the native host being gone by then.
C13_DropOrder ==
    last.op = "host_drop" =>
        LET n == Len(dropLog)
        IN /\ n >= 2
           /\ \A i \in 1..(n - 2) : dropLog[i].step = "reclaim"
           /\ dropLog[n - 1].step = "destroy_host"
           /\ dropLog[n - 1].withT = {}
           /\ dropLog[n - 1].up
           /\ dropLog[n].step = "release_guard"
           /\ ~dropLog[n].native
           /\ \A s \in Slots : peer[s].data = "null"

\* C13 witness: a Host with T installed in two slots was dropped, and its
\* guard was the last one.
C13_Witness ==
    /\ last.op = "host_drop"
    /\ Len(dropLog) = 4
    /\ dropLog[1].step = "reclaim" /\ dropLog[2].step = "reclaim"
    /\ ~engine

(***************************************************************************)
(* Claims about the listing of peers and reset, checked under SpecPeer.    *)
(***************************************************************************)

\* C14: whenever peers() or peers_mut() can be called, the slots they yield
\* are exactly the slots in a non-unused state.
C14_Original ==
    HostIdle => \A s \in Slots : Listed(peer[s]) <=> peer[s].state # "unused"

\* C15: when reset returns, the T of the peer it was called on has been
\* reclaimed and the slot's data pointer is cleared.
C15_Original ==
    [][(HoldsMut /\ last'.op = "reset") =>
          /\ peer'[view.slot].data = "null"
          /\ peer'[view.slot].state = "unused"]_vars

(***************************************************************************)
(* Claims about OutputBuffer, checked under SpecOut.                       *)
(***************************************************************************)

\* C16: the written count of an OutputBuffer always equals the sum of the
\* lengths of the successful writes and never exceeds the capacity.
C16_Original ==
    /\ OutputBuffer_written(out) = out.total
    /\ OutputBuffer_written(out) <= out.length

(***************************************************************************)
(* Claims about Host::connect, checked under SpecPeer.                     *)
(***************************************************************************)

\* C17: connect with channel_count 0 fails with InvalidArgument before any
\* native call: no peer slot changes, no T is allocated, no view is made
\* and the host and the engine are unchanged.
C17_ZeroChannels ==
    [][(last'.op = "connect" /\ last'.channel_count = 0) =>
          /\ last'.how = "err_invalid"
          /\ UNCHANGED <<initVars, host, built, compressor, panic, peer, view,
                         nullReclaim, pktVars>>]_vars

\* C17 witness: connect was refused for channel_count 0 on a host that has
\* a connected peer and a free slot.
C17_Witness ==
    /\ last = [op |-> "connect", how |-> "err_invalid", channel_count |-> 0]
    /\ \E s \in Slots : peer[s].state = "connected" /\ peer[s].data = "T"
    /\ FirstUnused # 0

(***************************************************************************)
(* Claims about a rejected send, checked under SpecPkt.                    *)
(***************************************************************************)

\* C18: when the native send is rejected, send returns Err(Unknown), the
\* packet's life has ended with its native allocation released exactly
\* once, and the peer's state and attached data, the view and the host are
\* unchanged.
C18_RejectedSend ==
    [][\A p \in Packets :
          (last'.op = "send" /\ last'.how = "err_unknown"
              /\ pkt[p].st = "owned" /\ pkt'[p].st # "owned") =>
              /\ pkt'[p].st = "done"
              /\ pkt[p].releases = 0
              /\ pkt'[p].releases = 1
              /\ UNCHANGED <<peer, view, host, nullReclaim>>]_vars

\* C18 witness: a send on a connected peer was rejected, and the packet,
\* made by Packet::new, is gone.
C18_Witness ==
    /\ last = [op |-> "send", how |-> "err_unknown"]
    /\ HoldsMut
    /\ peer[view.slot].state = "connected"
    /\ \E p \in Packets :
          pkt[p].st = "done" /\ pkt[p].origin = "new" /\ pkt[p].releases = 1

(***************************************************************************)
(* Claims about the defaults of HostBuilder, checked under SpecBuild.      *)
(***************************************************************************)

\* C19: a host built by a builder on which channel_limit was never called
\* has a channel limit of MAXIMUM_CHANNEL_COUNT.
C19_Original ==
    (host = "alive" /\ ~built.cfg.channel_limit.set) =>
        NativeChannelLimit(built.args.channel_limit) = MAXIMUM_CHANNEL_COUNT

\* C20: a host built by a builder on which incoming_bandwidth (or
\* outgoing_bandwidth) was never called has that bandwidth unlimited: the
\* native host was created with the value 0 for it.
C20_Original ==
    host = "alive" =>
        /\ ~built.cfg.incoming_bandwidth.set => built.args.incoming_bandwidth = 0
        /\ ~built.cfg.outgoing_bandwidth.set => built.args.outgoing_bandwidth = 0

(***************************************************************************)
(* Claims about buffered compressor failures, checked under SpecPanic.     *)
(***************************************************************************)

\* C21: a failure buffered in the bridge context is never overwritten: it
\* stays the buffered one until it is taken out to be re-raised.
C21_Original ==
    [][panic # "none" => panic' \in {panic, "none"}]_vars

(***************************************************************************)
(* Claims about the native entry points, checked under SpecBridge.         *)
(***************************************************************************)

\* C22: a native compressor entry point returns the total number of bytes
\* the capability wrote when the capability returned Ok, and 0 when it
\* returned an error or panicked; a panic does not leave the entry point.
C22_Original ==
    /\ cb.how = "ok" => cb.ret = cb.total
    /\ cb.how \in {"err", "panic"} => cb.ret = 0
    /\ ~cb.propagated

(***************************************************************************)
(* Claims about successive writes, checked under SpecOut.                  *)
(***************************************************************************)

\* C23: after successful writes d1, ..., dk the first len(d1)+...+len(dk)
\* bytes of the output memory are the concatenation d1 ... dk.
C23_Original ==
    /\ Len(out.cat) <= out.length
    /\ \A i \in 1..Len(out.cat) : i <= out.length => out.buffer[i] = out.cat[i]

(***************************************************************************)
(* Claims about disconnection and attached data, checked under SpecPeer.   *)
(***************************************************************************)

\* The caller holds the view that a Disconnect event carried.
HoldsDisconnectView == HoldsMut /\ view.disconnecting

\* C24: disconnect and disconnect_later, called on a peer that has not yet
\* been reported disconnected, leave its T installed; disconnect_now
\* leaves the slot unused with its T reclaimed, so that no Disconnect
\* event follows for that connection; and apart from disconnect_now and
\* the destructor of Host, the T of a slot is reclaimed only in the step
\* that ends the view carried by a Disconnect event for that slot.
C24_DeferredReclaim ==
    [][/\ (HoldsMut /\ ~view.disconnecting /\ last'.op = "disconnect") =>
             peer'[view.slot].data = "T"
       /\ (HoldsMut /\ last'.op = "disconnect_now") =>
             /\ peer'[view.slot].data = "null"
             /\ peer'[view.slot].state = "unused"
       /\ \A s \in Slots :
             (peer[s].data = "T" /\ peer'[s].data = "null") =>
                 \/ last'.op \in {"disconnect_now", "host_drop"}
                 \/ HoldsDisconnectView /\ view.slot = s /\ view' = NoView]_vars

\* C24 witness: disconnect has returned, the peer is disconnecting and its
\* T is still installed.
C24_Witness ==
    /\ last.op = "disconnect"
    /\ view = NoView
    /\ \E s \in Slots : peer[s].state = "disconnecting" /\ peer[s].data = "T"

\* C24 as stated: after disconnect or disconnect_later returns, whatever
\* view it was called on, T is still installed; the rest as above.
C24_Original ==
    [][/\ (HoldsMut /\ last'.op = "disconnect") =>
             peer'[view.slot].data = "T"
       /\ (HoldsMut /\ last'.op = "disconnect_now") =>
             /\ peer'[view.slot].data = "null"
             /\ peer'[view.slot].state = "unused"
       /\ \A s \in Slots :
             (peer[s].data = "T" /\ peer'[s].data = "null") =>
                 \/ last'.op \in {"disconnect_now", "host_drop"}
                 \/ HoldsDisconnectView /\ view.slot = s /\ view' = NoView]_vars

(***************************************************************************)
(* Claims about set_timeout, checked under SpecTimeout.                    *)
(***************************************************************************)

\* C25: for each of limit, min and max, set_timeout gives the engine the
\* supplied duration in milliseconds, and 0 for an absent field.
C25_Original ==
    \A i \in 1..3 :
        timeouts.sent[i] = IF timeouts.args[i].set THEN timeouts.args[i].v ELSE 0

(***************************************************************************)
(* Claims about a failing InitGuard::new, checked under SpecInit.          *)
(***************************************************************************)

\* C26: InitGuard::new calls the native initializer exactly when it finds
\* the count at 0; with a nonzero count it returns a guard without a native
\* call; when the native initializer reports failure no guard is created,
\* the count stays 0 and the engine stays uninitialized (so the next new
\* finds the count at 0 again), and otherwise the guard is created with
\* the count at 1 and the engine initialized.
C26_NewFailsOnlyOnInit ==
    [][\A t \in Threads :
          /\ (pc[t] = "new_wait" /\ pc'[t] # "new_wait") =>
                /\ pc'[t] = "new_native" <=> refCount = 0
                /\ pc'[t] = "idle" =>
                      /\ guards' = guards + 1
                      /\ refCount' = refCount + 1
                      /\ UNCHANGED <<engine, lastCall>>
          /\ (pc[t] = "new_native" /\ pc'[t] = "idle") =>
                IF lastCall' = "initialize_failed"
                THEN /\ guards' = guards
                     /\ refCount' = 0
                     /\ ~engine'
                ELSE /\ lastCall' = "initialize"
                     /\ guards' = guards + 1
                     /\ refCount' = 1
                     /\ engine']_vars

\* C26 witness: after a failed initialization a later new is inside the
\* native initializer again.
C26_Witness ==
    /\ lastCall = "initialize_failed"
    /\ refCount = 0
    /\ \E t \in Threads : pc[t] = "new_native"

(***************************************************************************)
(* Claims about a build that fails late, checked under SpecPkt.            *)
(***************************************************************************)

\* C27: when build fails with Unknown (enet_host_create returned null, or
\* the compressor could not be installed), no Host exists afterwards, a
\* native host that had been created was destroyed while the engine was
\* up and before the guard was released, and the count, the number of
\* live guards and the engine state are what they were before the call.
C27_LateFailure ==
    [][(last'.op = "build" /\ last'.how = "err_unknown") =>
          /\ refCount' = refCount
          /\ guards' = guards
          /\ engine' = engine
          /\ host' = "none"
          /\ built'.args = NoArgs
          /\ LET n == Len(dropLog')
             IN /\ n \in 1..2
                /\ dropLog'[n].step = "release_guard"
                /\ ~dropLog'[n].native
                /\ n = 2 => /\ dropLog'[1].step = "destroy_host"
                            /\ dropLog'[1].native
                            /\ dropLog'[1].up]_vars

\* C27 witness: build failed with Unknown after it had created a native
\* host, while a packet keeps the engine up; the count is the packet's.
C27_Witness ==
    /\ last = [op |-> "build", how |-> "err_unknown"]
    /\ Len(dropLog) = 2
    /\ host = "none"
    /\ engine /\ refCount = 1 /\ Cardinality(Owned) = 1

(***************************************************************************)
(* Claims about the installation of attached data, checked under SpecReuse.*)
(***************************************************************************)

C29_Original == flags.call.op = "fmt" => flags.call.how = "ok"

(***************************************************************************)
(* Claims about OutputBuffer::is_empty, checked under SpecOut.             *)
(***************************************************************************)

\* C30: is_empty() is true exactly when len() is 0.
C30_Original ==
    OutputBuffer_is_empty(out) <=> OutputBuffer_len(out) = 0

====
